---- MODULE Spec2Model ----
(***************************************************************************)
(* State-machine model of udtc/frameworks/__init__.py: the category        *)
(* registry (BaseCategory.categories), category and framework objects,     *)
(* framework construction and registration, the capability check           *)
(* (is_installable), dispatch (run_for), setup, mark_in_config and the     *)
(* discovery loader (load_frameworks).                                     *)
(*                                                                         *)
(* Names are sequences of one-character strings so that prog_name is       *)
(* computed character by character, as the code does.  A category object   *)
(* is a record held in `heap` and identified by its position there (object *)
(* identity); a framework object is a record held in the `frameworks`      *)
(* sequence of the category that registered it (insertion order, keyed by  *)
(* the framework's prog_name).                                             *)
(***************************************************************************)
EXTENDS Integers, Sequences, FiniteSets, TLC

VARIABLES
    completion_mode,  \* what is_completion_mode() answers in this process
    categories,       \* BaseCategory.categories: ids of the registered categories, in insertion order
    heap,             \* every category object constructed so far, by id
    process,          \* "running", or "exited" once MainLoop().quit ended the process
    plugins,          \* the plugin directory: the modules load_frameworks finds, in order
    passes,           \* how many times load_frameworks has run
    first_pass,       \* the registry as the first run of load_frameworks left it
    last,             \* what the last operation was given, did and returned
    config            \* ConfigHandler().config: the persisted configuration, a nested mapping

vars == <<completion_mode, categories, heap, process, plugins, passes, first_pass, last, config>>

-----------------------------------------------------------------------------
\* Bounds of the model: how many category objects a behaviour constructs, and
\* how many framework objects are registered over all of them.
MaxCategories == 2
MaxFrameworks == 2

-----------------------------------------------------------------------------
\* Names and program-names

\* str.lower() on the characters the model's names use
LowerChar(ch) ==
    CASE ch = "A" -> "a"
      [] ch = "B" -> "b"
      [] ch = "C" -> "c"
      [] OTHER -> ch

\* str.replace(old, new) on one character
ReplaceChar(ch, old, new) == IF ch = old THEN new ELSE ch

\* self.name.lower().replace('/', '-').replace(' ', '-')
ProgNameOf(name) ==
    [i \in 1..Len(name) |-> ReplaceChar(ReplaceChar(LowerChar(name[i]), "/", "-"), " ", "-")]

\* BaseCategory.prog_name
CategoryProgName(name) == ProgNameOf(name)

\* BaseFramework.prog_name
FrameworkProgName(name) == ProgNameOf(name)

\* The name MainCategory gives itself
MainName == <<"m", "a", "i", "n">>

\* Names a category declaration may carry: two that derive the same
\* program-name.
CategoryNames == {<<"A", " ", "b">>, <<"a", "/", "b">>}

\* Names a framework declaration may carry
FrameworkNames == {<<"A", " ", "b">>, <<"a", "/", "b">>, <<"c">>}

\* udtc.settings.DEFAULT_INSTALL_TOOLS_PATH, as a path of one component
DEFAULT_INSTALL_TOOLS_PATH == << <<"t", "o", "o", "l", "s">> >>

\* A path given on the command line or kept in the configuration
CustomPath == << <<"o", "p", "t">> >>

\* The platform the process runs on
CurrentArch == "amd64"
CurrentVersion == "14.04"

Min(S) == CHOOSE x \in S : \A y \in S : x <= y

-----------------------------------------------------------------------------
\* BaseCategory

\* The keys of BaseCategory.categories
RegistryKeys(reg, h) == {CategoryProgName(h[reg[i]].name) : i \in 1..Len(reg)}

\* BaseCategory.__init__ as it would be if a later category replaced the
\* registered one: self.categories[self.prog_name] = self, unconditionally
BaseCategoryInitReplacing(reg, h, name, is_main_category) ==
    LET self == [name |-> name,
                 is_main_category |-> is_main_category,
                 frameworks |-> <<>>]
        id == Len(h) + 1
        at == {i \in 1..Len(reg) : CategoryProgName(h[reg[i]].name) = CategoryProgName(name)}
    IN  [heap |-> Append(h, self),
         categories |-> IF at # {}
                        THEN [reg EXCEPT ![Min(at)] = id]
                        ELSE Append(reg, id),
         id |-> id]

\* BaseCategory.__init__ as it would be if constructing a category whose
\* prog_name is taken handed back the registered object (a singleton per name)
BaseCategoryInitFetching(reg, h, name, is_main_category) ==
    LET self == [name |-> name,
                 is_main_category |-> is_main_category,
                 frameworks |-> <<>>]
        at == {i \in 1..Len(reg) : CategoryProgName(h[reg[i]].name) = CategoryProgName(name)}
    IN  IF at # {}
        THEN [heap |-> h, categories |-> reg, id |-> reg[Min(at)]]
        ELSE [heap |-> Append(h, self), categories |-> Append(reg, Len(h) + 1),
              id |-> Len(h) + 1]

\* BaseCategory.__init__: the new object is always created; it is stored in
\* the registry only when its prog_name is not a key yet.
BaseCategoryInit(reg, h, name, is_main_category) ==
    LET self == [name |-> name,
                 is_main_category |-> is_main_category,
                 frameworks |-> <<>>]
        id == Len(h) + 1
    IN  [heap |-> Append(h, self),
         categories |-> IF CategoryProgName(name) \in RegistryKeys(reg, h)
                        THEN reg
                        ELSE Append(reg, id),
         id |-> id]

\* BaseCategory.main_category: the first registered category whose
\* is_main_category is true; 0 stands for None.
main_category(reg, h) ==
    LET S == {i \in 1..Len(reg) : h[reg[i]].is_main_category}
    IN  IF S = {} THEN 0 ELSE reg[Min(S)]

\* BaseCategory.default_framework: the position of the first framework whose
\* is_category_default is true; 0 stands for None.
default_framework(frameworks) ==
    LET S == {i \in 1..Len(frameworks) : frameworks[i].is_category_default}
    IN  IF S = {} THEN 0 ELSE Min(S)

\* BaseCategory.register_framework
register_framework(frameworks, framework) ==
    IF \E i \in 1..Len(frameworks) :
          FrameworkProgName(frameworks[i].name) = FrameworkProgName(framework.name)
    THEN frameworks
    ELSE Append(frameworks, framework)

\* BaseCategory.has_frameworks
has_frameworks(frameworks) == Len(frameworks) > 0

\* BaseCategory.has_one_framework
has_one_framework(frameworks) == Len(frameworks) = 1

-----------------------------------------------------------------------------
\* BaseFramework

\* What the platform and the collaborators answer when one framework asks:
\*   isdir             os.path.isdir(self.install_path)
\*   bucket_unknown    RequirementsHandler().is_bucket_installed raises KeyError
\*   bucket_installed  its answer otherwise
\*   bucket_available  RequirementsHandler().is_bucket_available
\*   available_fails   is_bucket_available raises
\*   arch              get_current_arch(), or "Error" when it raises
\*   version           get_current_ubuntu_version(), or "Error" when it raises
Answer(isdir, unknown, installed, available, fails, arch, version) ==
    [isdir |-> isdir, bucket_unknown |-> unknown, bucket_installed |-> installed,
     bucket_available |-> available, available_fails |-> fails,
     arch |-> arch, version |-> version]

\* BaseFramework.is_installable as it would be without the check of
\* only_on_archs
is_installable_any_arch(self, e) ==
    IF Len(self.only_ubuntu_version) > 0 /\ e.version = "Error" THEN FALSE
    ELSE IF Len(self.only_ubuntu_version) > 0
            /\ ~(\E i \in 1..Len(self.only_ubuntu_version) : self.only_ubuntu_version[i] = e.version)
    THEN FALSE
    ELSE IF e.available_fails THEN FALSE
    ELSE IF ~e.bucket_available THEN FALSE
    ELSE TRUE

\* BaseFramework.is_installable as it would be if a failing lookup were taken
\* for a passed check (fail open)
is_installable_fail_open(self, e) ==
    IF Len(self.only_on_archs) > 0 /\ e.arch # "Error"
       /\ ~(\E i \in 1..Len(self.only_on_archs) : self.only_on_archs[i] = e.arch)
    THEN FALSE
    ELSE IF Len(self.only_ubuntu_version) > 0 /\ e.version # "Error"
            /\ ~(\E i \in 1..Len(self.only_ubuntu_version) : self.only_ubuntu_version[i] = e.version)
    THEN FALSE
    ELSE IF ~e.available_fails /\ ~e.bucket_available THEN FALSE
    ELSE TRUE

\* BaseFramework.is_installable
is_installable(self, e) ==
    IF Len(self.only_on_archs) > 0 /\ e.arch = "Error" THEN FALSE
    ELSE IF Len(self.only_on_archs) > 0
            /\ ~(\E i \in 1..Len(self.only_on_archs) : self.only_on_archs[i] = e.arch)
    THEN FALSE
    ELSE IF Len(self.only_ubuntu_version) > 0 /\ e.version = "Error" THEN FALSE
    ELSE IF Len(self.only_ubuntu_version) > 0
            /\ ~(\E i \in 1..Len(self.only_ubuntu_version) : self.only_ubuntu_version[i] = e.version)
    THEN FALSE
    ELSE IF e.available_fails THEN FALSE
    ELSE IF ~e.bucket_available THEN FALSE
    ELSE TRUE

\* BaseFramework.is_installed: "True", "False", or the exception it raises.
\* A framework constructed in completion mode has no install_path attribute.
is_installed(self, e) ==
    IF self.partial THEN "AttributeError"
    ELSE IF ~e.isdir THEN "False"
    ELSE IF e.bucket_unknown THEN "KeyError"
    ELSE IF ~e.bucket_installed THEN "False"
    ELSE "True"

\* The calls BaseFramework.is_installable makes to the platform and the
\* requirements collaborator, in order
is_installable_queries(self, e) ==
    LET arch_asked == Len(self.only_on_archs) > 0
        arch_stops == arch_asked
                      /\ (e.arch = "Error"
                          \/ ~(\E i \in 1..Len(self.only_on_archs) : self.only_on_archs[i] = e.arch))
        version_asked == ~arch_stops /\ Len(self.only_ubuntu_version) > 0
        version_stops == version_asked
                         /\ (e.version = "Error"
                             \/ ~(\E i \in 1..Len(self.only_ubuntu_version) :
                                     self.only_ubuntu_version[i] = e.version))
    IN  (IF arch_asked THEN <<"get_current_arch">> ELSE <<>>)
        \o (IF version_asked THEN <<"get_current_ubuntu_version">> ELSE <<>>)
        \o (IF ~arch_stops /\ ~version_stops THEN <<"is_bucket_available">> ELSE <<>>)

\* The calls BaseFramework.is_installed makes, in order
is_installed_queries(self, e) ==
    IF self.partial THEN <<>>
    ELSE <<"isdir">> \o (IF e.isdir THEN <<"is_bucket_installed">> ELSE <<>>)

\* An empty dict
EmptyDict == <<>>

\* dict.setdefault(key, default), as the dict afterwards
setdefault(d, key, default) == IF key \in DOMAIN d THEN d ELSE (key :> default) @@ d

\* config["frameworks"][category.prog_name][self.prog_name]["path"] as
\* BaseFramework.__init__ reads it; <<>> when a key is missing (KeyError)
config_lookup(cfg, category, name) ==
    LET ckey == CategoryProgName(category.name)
        fkey == FrameworkProgName(name)
    IN  IF "frameworks" \notin DOMAIN cfg THEN <<>>
        ELSE IF ckey \notin DOMAIN cfg["frameworks"] THEN <<>>
        ELSE IF fkey \notin DOMAIN cfg["frameworks"][ckey] THEN <<>>
        ELSE IF "path" \notin DOMAIN cfg["frameworks"][ckey][fkey] THEN <<>>
        ELSE cfg["frameworks"][ckey][fkey]["path"]

\* BaseFramework.mark_in_config as it would be if it stored a new "frameworks"
\* entry instead of merging into the one it read
mark_in_config_overwriting(cfg, category, self) ==
    IF self.partial
    THEN [config |-> cfg, raised |-> "AttributeError"]
    ELSE [config |->
              ("frameworks" :>
                  (CategoryProgName(category.name) :>
                      (FrameworkProgName(self.name) :> ("path" :> self.install_path))))
              @@ cfg,
          raised |-> "none"]

\* BaseFramework.mark_in_config.  Result: the configuration stored, and the
\* exception raised (a framework constructed in completion mode has no
\* install_path, and the right-hand side is evaluated first).
mark_in_config(cfg, category, self) ==
    IF self.partial
    THEN [config |-> cfg, raised |-> "AttributeError"]
    ELSE
    LET ckey == CategoryProgName(category.name)
        fkey == FrameworkProgName(self.name)
        c1 == setdefault(cfg, "frameworks", EmptyDict)
        f1 == setdefault(c1["frameworks"], ckey, EmptyDict)
        w1 == setdefault(f1[ckey], fkey, EmptyDict)
        entry == ("path" :> self.install_path) @@ w1[fkey]
        w2 == (fkey :> entry) @@ w1
        f2 == (ckey :> w2) @@ f1
    IN  [config |-> ("frameworks" :> f2) @@ c1, raised |-> "none"]

\* The path BaseFramework.__init__ computes when the configuration holds none
default_install_path(category, name, install_path_dir) ==
    DEFAULT_INSTALL_TOOLS_PATH \o
        (IF install_path_dir # <<>> THEN install_path_dir
         ELSE (IF category.is_main_category THEN <<>> ELSE <<CategoryProgName(category.name)>>)
              \o <<FrameworkProgName(name)>>)

\* BaseFramework.__init__ past the completion-mode return: root-access
\* detection, the default-framework rules, the install path, and registration
\* of a framework that is installed or installable.  queries are the calls
\* made to the collaborators, in order.
BaseFrameworkInitDetect(reg, h, c, decl, e, config_path) ==
    LET category == h[c]
        need_root == IF e.bucket_unknown THEN FALSE ELSE ~e.bucket_installed
        prior == default_framework(category.frameworks)
        in_main == decl.is_category_default /\ c = main_category(reg, h)
        in_conflict == decl.is_category_default /\ ~in_main /\ prior # 0
        frameworks1 == IF in_conflict
                       THEN [category.frameworks EXCEPT ![prior].is_category_default = FALSE]
                       ELSE category.frameworks
        self1 == [name |-> decl.name,
                  is_category_default |->
                      decl.is_category_default /\ ~in_main /\ ~in_conflict,
                  only_on_archs |-> decl.only_on_archs,
                  only_ubuntu_version |-> decl.only_ubuntu_version,
                  partial |-> FALSE,
                  need_root_access |-> need_root,
                  install_path |->
                      IF config_path # <<>> THEN config_path
                      ELSE default_install_path(category, decl.name, decl.install_path_dir)]
        installed == is_installed(self1, e)
        queries1 == <<"is_bucket_installed", "config">> \o is_installed_queries(self1, e)
    IN  IF installed = "KeyError"
        THEN [frameworks |-> frameworks1, raised |-> "KeyError", self |-> self1,
              queries |-> queries1]
        ELSE IF installed = "False" /\ ~is_installable(self1, e)
        THEN [frameworks |-> frameworks1, raised |-> "none", self |-> self1,
              queries |-> queries1 \o is_installable_queries(self1, e)]
        ELSE [frameworks |-> register_framework(frameworks1, self1),
              raised |-> "none", self |-> self1,
              queries |-> queries1 \o (IF installed = "False"
                                       THEN is_installable_queries(self1, e)
                                       ELSE <<>>)]

\* BaseFramework.__init__ as it would be without the completion-mode return
BaseFrameworkInitAlwaysDetecting(reg, h, in_completion, c, decl, e, config_path) ==
    BaseFrameworkInitDetect(reg, h, c, decl, e, config_path)

\* BaseFramework.__init__ for category object c.  decl holds the arguments of
\* the declaration, e the environment's answers, config_path what the
\* configuration holds for this framework (<<>>: nothing usable).
\* Result: the category's frameworks afterwards, the exception raised
\* ("none": returned normally), the new object, and the calls made to the
\* collaborators.  In completion mode the object is registered as declared and
\* need_root_access and install_path are never set.
BaseFrameworkInit(reg, h, in_completion, c, decl, e, config_path) ==
    IF in_completion
    THEN LET self0 == [name |-> decl.name,
                       is_category_default |-> decl.is_category_default,
                       only_on_archs |-> decl.only_on_archs,
                       only_ubuntu_version |-> decl.only_ubuntu_version,
                       partial |-> TRUE,
                       need_root_access |-> FALSE,
                       install_path |-> <<>>]
         IN  [frameworks |-> register_framework(h[c].frameworks, self0),
              raised |-> "none", self |-> self0, queries |-> <<>>]
    ELSE BaseFrameworkInitDetect(reg, h, c, decl, e, config_path)

-----------------------------------------------------------------------------
\* BaseFramework.setup, run_for and BaseCategory.is_installed, run_for

\* BaseCategory.NOT_INSTALLED, PARTIALLY_INSTALLED, FULLY_INSTALLED = range(3)
NOT_INSTALLED == 0
PARTIALLY_INSTALLED == 1
FULLY_INSTALLED == 2

\* os.getenv("PATH") and sys.argv of the process
EnvPath == "/usr/bin"
SysArgv == <<"udtc", "a-b", "c">>

\* cmd = ["sudo", "-E", "env", "PATH={}".format(os.getenv("PATH"))] extended
\* by sys.argv
SudoCmd == <<"sudo", "-E", "env", "PATH=" \o EnvPath>> \o SysArgv

\* MainLoop().quit(status): the current process ends with the child's status
MainLoopQuit(effects, status) ==
    [effects |-> Append(effects, "quit"), exited |-> TRUE, status |-> status]

\* BaseFramework.setup as it would be without the is_installable guard
setup_unguarded(self, install_path, e, euid, child_status) ==
    IF self.partial
    THEN [self |-> self, effects |-> <<>>, exited |-> FALSE, raised |-> "AttributeError",
          cmd |-> <<>>, status |-> 0]
    ELSE IF self.need_root_access /\ euid # 0
    THEN LET q == MainLoopQuit(<<"sudo">>, child_status)
         IN  [self |-> self, effects |-> q.effects, exited |-> q.exited, raised |-> "none",
              cmd |-> SudoCmd, status |-> q.status]
    ELSE [self |-> IF install_path # <<>>
                   THEN [self EXCEPT !.install_path = install_path]
                   ELSE self,
          effects |-> <<"switch_to_current_user">>
                      \o (IF install_path # <<>> THEN <<"install_path">> ELSE <<>>),
          exited |-> FALSE, raised |-> "none", cmd |-> <<>>, status |-> 0]

\* BaseFramework.setup as it would be if it asked for root access without
\* looking at os.geteuid()
setup_euid_unchecked(self, install_path, e, euid, child_status) ==
    IF ~is_installable(self, e)
    THEN [self |-> self, effects |-> <<"return_main_screen">>, exited |-> FALSE,
          raised |-> "none", cmd |-> <<>>, status |-> 0]
    ELSE IF self.partial
    THEN [self |-> self, effects |-> <<>>, exited |-> FALSE, raised |-> "AttributeError",
          cmd |-> <<>>, status |-> 0]
    ELSE IF self.need_root_access
    THEN LET q == MainLoopQuit(<<"sudo">>, child_status)
         IN  [self |-> self, effects |-> q.effects, exited |-> q.exited, raised |-> "none",
              cmd |-> SudoCmd, status |-> q.status]
    ELSE [self |-> IF install_path # <<>>
                   THEN [self EXCEPT !.install_path = install_path]
                   ELSE self,
          effects |-> <<"switch_to_current_user">>
                      \o (IF install_path # <<>> THEN <<"install_path">> ELSE <<>>),
          exited |-> FALSE, raised |-> "none", cmd |-> <<>>, status |-> 0]

\* BaseFramework.setup(install_path) for an effective user id euid;
\* child_status is what subprocess.call returns if sudo is spawned.
\* Result: the object afterwards, the calls made in order (return_main_screen,
\* sudo, quit, switch_to_current_user, the assignment of install_path), the
\* command handed to subprocess.call, whether the process ended and with
\* which status, and the exception raised.
setup(self, install_path, e, euid, child_status) ==
    IF ~is_installable(self, e)
    THEN [self |-> self, effects |-> <<"return_main_screen">>, exited |-> FALSE,
          raised |-> "none", cmd |-> <<>>, status |-> 0]
    ELSE IF self.partial
    THEN [self |-> self, effects |-> <<>>, exited |-> FALSE, raised |-> "AttributeError",
          cmd |-> <<>>, status |-> 0]
    ELSE IF self.need_root_access /\ euid # 0
    THEN LET q == MainLoopQuit(<<"sudo">>, child_status)
         IN  [self |-> self, effects |-> q.effects, exited |-> q.exited, raised |-> "none",
              cmd |-> SudoCmd, status |-> q.status]
    ELSE [self |-> IF install_path # <<>>
                   THEN [self EXCEPT !.install_path = install_path]
                   ELSE self,
          effects |-> <<"switch_to_current_user">>
                      \o (IF install_path # <<>> THEN <<"install_path">> ELSE <<>>),
          exited |-> FALSE, raised |-> "none", cmd |-> <<>>, status |-> 0]

\* BaseFramework.run_for(args)
framework_run_for(self, destdir, e, euid, child_status) ==
    setup(self, destdir, e, euid, child_status)

\* self.frameworks[key] of the NoneDict: the position of the framework
\* registered under key; 0 stands for None.
FrameworkAt(frameworks, key) ==
    LET S == {i \in 1..Len(frameworks) : FrameworkProgName(frameworks[i].name) = key}
    IN  IF S = {} THEN 0 ELSE Min(S)

\* BaseCategory.run_for as it would be if it fell back to the first registered
\* framework when no framework is named
category_run_for_first(frameworks, framework, destdir, e, euid, child_status) ==
    LET target == IF framework = <<>>
                  THEN (IF Len(frameworks) > 0 THEN 1 ELSE 0)
                  ELSE FrameworkAt(frameworks, framework)
    IN  IF target = 0
        THEN [target |-> 0, frameworks |-> frameworks, effects |-> <<>>, exited |-> FALSE,
              installable |-> FALSE, cmd |-> <<>>, status |-> 0,
              raised |-> IF framework = <<>> THEN "BaseException" ELSE "AttributeError"]
        ELSE LET r == framework_run_for(frameworks[target], destdir, e, euid, child_status)
             IN  [target |-> target,
                  frameworks |-> [frameworks EXCEPT ![target] = r.self],
                  effects |-> r.effects, exited |-> r.exited,
                  cmd |-> r.cmd, status |-> r.status,
                  installable |-> is_installable(frameworks[target], e),
                  raised |-> r.raised]

\* BaseCategory.run_for(args): args.framework is <<>> when no framework is
\* named.  Result: the position of the framework whose run_for was called (0:
\* none was), and what that call did.
category_run_for(frameworks, framework, destdir, e, euid, child_status) ==
    LET target == IF framework = <<>>
                  THEN default_framework(frameworks)
                  ELSE FrameworkAt(frameworks, framework)
    IN  IF target = 0
        THEN [target |-> 0, frameworks |-> frameworks, effects |-> <<>>, exited |-> FALSE,
              installable |-> FALSE, cmd |-> <<>>, status |-> 0,
              raised |-> IF framework = <<>> THEN "BaseException" ELSE "AttributeError"]
        ELSE LET r == framework_run_for(frameworks[target], destdir, e, euid, child_status)
             IN  [target |-> target,
                  frameworks |-> [frameworks EXCEPT ![target] = r.self],
                  effects |-> r.effects, exited |-> r.exited,
                  cmd |-> r.cmd, status |-> r.status,
                  installable |-> is_installable(frameworks[target], e),
                  raised |-> r.raised]

\* The outcome of framework.is_installed for each registered framework, in
\* order: obs[i] is what the environment answers to frameworks[i]
InstalledOutcomes(frameworks, obs) ==
    [i \in 1..Len(frameworks) |-> is_installed(frameworks[i], obs[i])]

\* BaseCategory.is_installed as it would be with its two comparisons in the
\* other order
category_is_installed_swapped(frameworks, obs) ==
    LET outcomes == InstalledOutcomes(frameworks, obs)
        failing == {i \in 1..Len(frameworks) : outcomes[i] \notin {"True", "False"}}
        installed_frameworks == SelectSeq(outcomes, LAMBDA o : o = "True")
    IN  IF failing # {}
        THEN [raised |-> outcomes[Min(failing)], value |-> NOT_INSTALLED]
        ELSE IF Len(installed_frameworks) = Len(frameworks)
        THEN [raised |-> "none", value |-> FULLY_INSTALLED]
        ELSE IF Len(installed_frameworks) = 0
        THEN [raised |-> "none", value |-> NOT_INSTALLED]
        ELSE [raised |-> "none", value |-> PARTIALLY_INSTALLED]

\* BaseCategory.is_installed.  Result: the value returned, or the exception
\* the first failing framework.is_installed raised.
category_is_installed(frameworks, obs) ==
    LET outcomes == InstalledOutcomes(frameworks, obs)
        failing == {i \in 1..Len(frameworks) : outcomes[i] \notin {"True", "False"}}
        installed_frameworks == SelectSeq(outcomes, LAMBDA o : o = "True")
    IN  IF failing # {}
        THEN [raised |-> outcomes[Min(failing)], value |-> NOT_INSTALLED]
        ELSE IF Len(installed_frameworks) = 0
        THEN [raised |-> "none", value |-> NOT_INSTALLED]
        ELSE IF Len(installed_frameworks) = Len(frameworks)
        THEN [raised |-> "none", value |-> FULLY_INSTALLED]
        ELSE [raised |-> "none", value |-> PARTIALLY_INSTALLED]

-----------------------------------------------------------------------------
\* load_frameworks

\* One framework class of a plugin module: the arguments its constructor
\* passes on, whether calling it raises TypeError (its signature does not
\* match), and what the environment answers to it
PluginFramework(decl, raises_type_error, e) ==
    [decl |-> decl, raises_type_error |-> raises_type_error, e |-> e]

\* The loop over the framework classes as it would be without the except
\* clause: the TypeError leaves load_frameworks
RECURSIVE AttachFrameworksUncaught(_, _, _, _, _)
AttachFrameworksUncaught(st, in_completion, current_category, classes, k) ==
    IF k > Len(classes) \/ st.raised # "none" THEN st
    ELSE IF classes[k].raises_type_error
    THEN [st EXCEPT !.raised = "TypeError"]
    ELSE LET r == BaseFrameworkInit(st.categories, st.heap, in_completion, current_category,
                                    classes[k].decl, classes[k].e, <<>>)
         IN  AttachFrameworksUncaught(
                 [st EXCEPT !.heap[current_category].frameworks = r.frameworks,
                            !.raised = r.raised],
                 in_completion, current_category, classes, k + 1)

\* The loop over inspect.getmembers(module, _is_frameworkclass), from the
\* k-th class on.  st is the registry, the heap, the exception that left
\* load_frameworks ("none": still running) and the count of TypeErrors caught.
RECURSIVE AttachFrameworks(_, _, _, _, _)
AttachFrameworks(st, in_completion, current_category, classes, k) ==
    IF k > Len(classes) \/ st.raised # "none" THEN st
    ELSE IF classes[k].raises_type_error
    THEN AttachFrameworks([st EXCEPT !.caught = @ + 1],
                          in_completion, current_category, classes, k + 1)
    ELSE LET r == BaseFrameworkInit(st.categories, st.heap, in_completion, current_category,
                                    classes[k].decl, classes[k].e, <<>>)
         IN  AttachFrameworks([st EXCEPT !.heap[current_category].frameworks = r.frameworks,
                                         !.raised = r.raised],
                              in_completion, current_category, classes, k + 1)

\* The loop over inspect.getmembers(module, _is_categoryclass), from the k-th
\* class on: every category class is instantiated, the last one is current
RECURSIVE FindCategories(_, _, _)
FindCategories(st, names, k) ==
    IF k > Len(names) THEN st
    ELSE LET r == BaseCategoryInit(st.categories, st.heap, names[k], FALSE)
         IN  FindCategories([st EXCEPT !.heap = r.heap, !.categories = r.categories,
                                       !.current = r.id],
                            names, k + 1)

\* The loop over pkgutil.iter_modules, from the k-th module on
RECURSIVE LoadModules(_, _, _, _, _)
LoadModules(st, in_completion, main, modules, k) ==
    IF k > Len(modules) \/ st.raised # "none" THEN st
    ELSE LET st1 == FindCategories([st EXCEPT !.current = main], modules[k].categories, 1)
             st2 == AttachFrameworks(st1, in_completion, st1.current, modules[k].frameworks, 1)
         IN  LoadModules(st2, in_completion, main, modules, k + 1)

\* load_frameworks()
load_frameworks(reg, h, in_completion, modules) ==
    LET m == BaseCategoryInit(reg, h, MainName, TRUE)
    IN  LoadModules([categories |-> m.categories, heap |-> m.heap, raised |-> "none",
                     caught |-> 0, current |-> m.id],
                    in_completion, m.id, modules, 1)

\* What a lookup in the registry shows: the categories' program-names, and
\* under each the frameworks' program-names and default flags, in order
RegistryView(reg, h) ==
    [i \in 1..Len(reg) |->
        [prog_name |-> CategoryProgName(h[reg[i]].name),
         frameworks |->
            [j \in 1..Len(h[reg[i]].frameworks) |->
                [prog_name |-> FrameworkProgName(h[reg[i]].frameworks[j].name),
                 is_category_default |-> h[reg[i]].frameworks[j].is_category_default]]]]

-----------------------------------------------------------------------------
\* Inputs

Declaration(name, dflt, archs, versions, dir) ==
    [name |-> name, is_category_default |-> dflt, only_on_archs |-> archs,
     only_ubuntu_version |-> versions, install_path_dir |-> dir]

\* Declarations of the registration model
FrameworkDecls ==
    {Declaration(n, d, a, <<>>, <<>>) :
        n \in FrameworkNames, d \in BOOLEAN, a \in {<<>>, <<"i386">>}}

\* Answers of the registration model: every framework's requirements are
\* installed or unknown to the package cache (need_root_access stays false)
Answers ==
    {Answer(dir, unk, TRUE, av, FALSE, CurrentArch, CurrentVersion) :
        dir \in BOOLEAN, unk \in BOOLEAN, av \in BOOLEAN}

\* Declarations of the dispatch model
DispatchDecls ==
    {Declaration(n, d, <<>>, <<>>, <<>>) : n \in {<<"A", " ", "b">>, <<"c">>}, d \in BOOLEAN}

\* Answers of the dispatch model, each of which lets the framework be
\* registered: installable with its requirements installed, installable with
\* its requirements missing (it needs root access), and installed
DispatchAnswers ==
    {Answer(FALSE, FALSE, TRUE, TRUE, FALSE, CurrentArch, CurrentVersion),
     Answer(FALSE, FALSE, FALSE, TRUE, FALSE, CurrentArch, CurrentVersion),
     Answer(TRUE, FALSE, TRUE, FALSE, FALSE, CurrentArch, CurrentVersion)}

\* Answers to is_installable when setup asks
SetupAnswers ==
    {Answer(FALSE, FALSE, TRUE, av, FALSE, CurrentArch, CurrentVersion) : av \in BOOLEAN}

\* Answers to framework.is_installed
InstalledAnswers ==
    {Answer(dir, unk, TRUE, TRUE, FALSE, CurrentArch, CurrentVersion) :
        dir \in BOOLEAN, unk \in BOOLEAN}

\* Effective user ids: root and an ordinary user
Euids == {0, 1000}

\* Who calls setup, and what the sudo child returns if one is spawned: root
\* (never spawns one), and an ordinary user whose child succeeds or fails
Callers == {caller \in Euids \X {0, 1} : caller[1] = 0 => caller[2] = 0}

\* Framework classes of the plugin modules: one that is installable, one that
\* is neither installed nor installable, one whose install directory exists
\* and whose requirements are unknown, and one whose constructor raises
\* TypeError
PluginAnswers ==
    {Answer(FALSE, FALSE, TRUE, TRUE, FALSE, CurrentArch, CurrentVersion),
     Answer(FALSE, FALSE, TRUE, FALSE, FALSE, CurrentArch, CurrentVersion),
     Answer(TRUE, TRUE, TRUE, TRUE, FALSE, CurrentArch, CurrentVersion)}

PluginFrameworks ==
    {PluginFramework(Declaration(n, d, <<>>, <<>>, <<>>), FALSE, e) :
        n \in {<<"A", " ", "b">>, <<"c">>}, d \in BOOLEAN, e \in PluginAnswers}
    \cup
    {PluginFramework(Declaration(n, d, <<>>, <<>>, <<>>), TRUE,
                     Answer(FALSE, FALSE, TRUE, TRUE, FALSE, CurrentArch, CurrentVersion)) :
        n \in {<<"A", " ", "b">>, <<"c">>}, d \in BOOLEAN}

\* The plugin directories: a first module that declares no category and up to
\* two framework classes, and a second module that declares one or two
\* category classes and up to one framework class
PluginSets ==
    {<< [categories |-> <<>>, frameworks |-> fs1],
        [categories |-> cs, frameworks |-> fs2] >> :
        fs1 \in {<<>>} \cup {<<f>> : f \in PluginFrameworks}
                 \cup {<<f, g>> : f \in PluginFrameworks, g \in PluginFrameworks},
        cs \in {<< <<"A", " ", "b">> >>, << <<"A", " ", "b">>, <<"a", "/", "b">> >>},
        fs2 \in {<<>>} \cup {<<f>> : f \in PluginFrameworks}}

\* Bound of the model: how many times load_frameworks runs
MaxPasses == 2

RECURSIVE SumLen(_, _)
SumLen(h, n) == IF n = 0 THEN 0 ELSE Len(h[n].frameworks) + SumLen(h, n - 1)

\* The number of registered framework objects
TotalFrameworks(h) == SumLen(h, Len(h))

NoOp ==
    [op |-> "none", cat |-> 0, fw |-> 0, raised |-> "none", registered |-> FALSE,
     requested_default |-> FALSE, arch_excluded |-> FALSE,
     is_category_default |-> FALSE, installed |-> "False",
     installable |-> FALSE, effects |-> <<>>, named |-> FALSE, supplied |-> FALSE,
     installed_count |-> 0, value |-> 0, caught |-> 0, framework |-> <<>>,
     collides |-> FALSE, queries |-> <<>>, cmd |-> <<>>, status |-> 0,
     elevates |-> FALSE, path |-> <<>>, child_status |-> 0,
     answer |-> Answer(FALSE, FALSE, FALSE, FALSE, FALSE, "", "")]

-----------------------------------------------------------------------------
\* Operations

Init ==
    /\ completion_mode \in BOOLEAN
    /\ categories = <<>>
    /\ heap = <<>>
    /\ process = "running"
    /\ plugins = <<>>
    /\ passes = 0
    /\ first_pass = <<>>
    /\ last = NoOp
    /\ config = EmptyDict

\* A category declaration is instantiated (BaseCategory.__init__)
NewCategory(name, is_main_category) ==
    /\ process = "running"
    /\ Len(heap) < MaxCategories
    /\ LET r == BaseCategoryInit(categories, heap, name, is_main_category)
       IN  /\ heap' = r.heap
           /\ categories' = r.categories
           /\ last' = [NoOp EXCEPT !.op = "category", !.cat = r.id,
                                   !.registered = (Len(r.categories) > Len(categories))]
    /\ UNCHANGED <<config, completion_mode, process, plugins, passes, first_pass>>

\* MainCategory()
NewMainCategory == NewCategory(MainName, TRUE)

\* A framework declaration is instantiated bound to category object c
NewFramework(c, decl, e, config_path) ==
    /\ process = "running"
    /\ c \in 1..Len(heap)
    /\ TotalFrameworks(heap) < MaxFrameworks
    /\ LET r == BaseFrameworkInit(categories, heap, completion_mode, c, decl, e, config_path)
       IN  /\ heap' = [heap EXCEPT ![c].frameworks = r.frameworks]
           /\ last' = [NoOp EXCEPT
                         !.op = "framework", !.cat = c, !.raised = r.raised,
                         !.registered = (Len(r.frameworks) > Len(heap[c].frameworks)),
                         !.requested_default = decl.is_category_default,
                         !.is_category_default = r.self.is_category_default,
                         !.installed = is_installed(r.self, e),
                         !.installable = is_installable(r.self, e),
                         !.queries = r.queries,
                         !.collides =
                             (FrameworkAt(heap[c].frameworks,
                                          FrameworkProgName(decl.name)) # 0),
                         !.arch_excluded =
                             (Len(decl.only_on_archs) > 0
                              /\ \A i \in 1..Len(decl.only_on_archs) :
                                    decl.only_on_archs[i] # e.arch)]
    /\ UNCHANGED <<config, completion_mode, categories, process, plugins, passes, first_pass>>

\* framework.setup(install_path) on the framework registered at position i of
\* category object c
Setup(c, i, install_path, e, euid, child_status) ==
    /\ process = "running"
    /\ c \in 1..Len(heap)
    /\ i \in 1..Len(heap[c].frameworks)
    /\ LET r == setup(heap[c].frameworks[i], install_path, e, euid, child_status)
       IN  /\ heap' = [heap EXCEPT ![c].frameworks[i] = r.self]
           /\ process' = IF r.exited THEN "exited" ELSE "running"
           /\ last' = [NoOp EXCEPT
                         !.op = "setup", !.cat = c, !.fw = i, !.raised = r.raised,
                         !.installable = is_installable(heap[c].frameworks[i], e),
                         !.supplied = (install_path # <<>>),
                         !.path = install_path,
                         !.elevates = (/\ ~heap[c].frameworks[i].partial
                                       /\ heap[c].frameworks[i].need_root_access
                                       /\ euid # 0),
                         !.child_status = IF r.exited THEN child_status ELSE 0,
                         !.cmd = r.cmd,
                         !.status = r.status,
                         !.effects = r.effects]
    /\ UNCHANGED <<config, completion_mode, categories, plugins, passes, first_pass>>

\* category.run_for(args) on category object c
RunFor(c, framework, destdir, e, euid, child_status) ==
    /\ process = "running"
    /\ c \in 1..Len(heap)
    /\ LET r == category_run_for(heap[c].frameworks, framework, destdir, e, euid, child_status)
       IN  /\ heap' = [heap EXCEPT ![c].frameworks = r.frameworks]
           /\ process' = IF r.exited THEN "exited" ELSE "running"
           /\ last' = [NoOp EXCEPT
                         !.op = "run_for", !.cat = c, !.fw = r.target, !.raised = r.raised,
                         !.named = (framework # <<>>),
                         !.framework = framework,
                         !.installable = r.installable,
                         !.supplied = (destdir # <<>>),
                         !.path = destdir,
                         !.elevates = (/\ r.target # 0
                                       /\ ~heap[c].frameworks[r.target].partial
                                       /\ heap[c].frameworks[r.target].need_root_access
                                       /\ euid # 0),
                         !.child_status = IF r.exited THEN child_status ELSE 0,
                         !.cmd = r.cmd,
                         !.status = r.status,
                         !.effects = r.effects]
    /\ UNCHANGED <<config, completion_mode, categories, plugins, passes, first_pass>>

\* category.is_installed is read on category object c
IsInstalled(c, obs) ==
    /\ process = "running"
    /\ c \in 1..Len(heap)
    /\ LET r == category_is_installed(heap[c].frameworks, obs)
       IN  last' = [NoOp EXCEPT
                      !.op = "is_installed", !.cat = c, !.raised = r.raised,
                      !.installed_count =
                          Cardinality({i \in 1..Len(heap[c].frameworks) :
                              is_installed(heap[c].frameworks[i], obs[i]) = "True"}),
                      !.value = r.value]
    /\ UNCHANGED <<config, completion_mode, categories, heap, process, plugins, passes, first_pass>>

\* framework.is_installable is read on the framework registered at position i
\* of category object c
IsInstallable(c, i, e) ==
    /\ process = "running"
    /\ c \in 1..Len(heap)
    /\ i \in 1..Len(heap[c].frameworks)
    /\ last' = [NoOp EXCEPT
                  !.op = "is_installable", !.cat = c, !.fw = i,
                  !.installable = is_installable(heap[c].frameworks[i], e),
                  !.queries = is_installable_queries(heap[c].frameworks[i], e),
                  !.answer = e]
    /\ UNCHANGED <<config, completion_mode, categories, heap, process, plugins, passes, first_pass>>

\* framework.mark_in_config() on the framework registered at position i of
\* category object c
MarkInConfig(c, i) ==
    /\ process = "running"
    /\ c \in 1..Len(heap)
    /\ i \in 1..Len(heap[c].frameworks)
    /\ LET r == mark_in_config(config, heap[c], heap[c].frameworks[i])
       IN  /\ config' = r.config
           /\ last' = [NoOp EXCEPT !.op = "mark_in_config", !.cat = c, !.fw = i,
                                   !.raised = r.raised]
    /\ UNCHANGED <<completion_mode, categories, heap, process, plugins, passes, first_pass>>

\* Registration: the main category, categories of one name, and frameworks
\* are constructed
Next ==
    \/ NewCategory(<<"A", " ", "b">>, FALSE)
    \/ NewMainCategory
    \/ \E c \in 1..Len(heap), decl \in FrameworkDecls, e \in Answers :
          NewFramework(c, decl, e, config_lookup(config, heap[c], decl.name))

Spec == Init /\ [][Next]_vars

\* Category registration alone: category declarations of any name, main or
\* not, are instantiated
NextCategories ==
    \/ \E name \in CategoryNames \cup {<<"c">>, MainName}, m \in BOOLEAN : NewCategory(name, m)
    \/ NewMainCategory

SpecCategories == Init /\ [][NextCategories]_vars

\* Dispatch: categories of one name and their frameworks are constructed, set
\* up, run and queried
NextDispatch ==
    \/ NewCategory(<<"A", " ", "b">>, FALSE)
    \/ \E c \in 1..Len(heap), decl \in DispatchDecls, e \in DispatchAnswers :
          NewFramework(c, decl, e, config_lookup(config, heap[c], decl.name))
    \/ \E c \in 1..Len(heap), i \in 1..MaxFrameworks, p \in {<<>>, CustomPath},
          e \in SetupAnswers, caller \in Callers :
          Setup(c, i, p, e, caller[1], caller[2])
    \/ \E c \in 1..Len(heap), f \in {<<>>, <<"c">>}, p \in {<<>>, CustomPath},
          e \in SetupAnswers, caller \in Callers :
          RunFor(c, f, p, e, caller[1], caller[2])
    \/ \E c \in 1..Len(heap) :
          \E obs \in [1..Len(heap[c].frameworks) -> InstalledAnswers] : IsInstalled(c, obs)

SpecDispatch == Init /\ [][NextDispatch]_vars

\* Declarations of the capability model: an architecture list and a version
\* list that are empty, lack the current one, or hold it
GateDecls ==
    {Declaration(<<"c">>, FALSE, a, v, <<>>) :
        a \in {<<>>, <<"i386">>, <<"i386", CurrentArch>>},
        v \in {<<>>, <<"12.04">>, <<CurrentVersion, "12.04">>}}

\* Answers of the capability model: each lookup answers or fails
GateAnswers ==
    {Answer(FALSE, FALSE, TRUE, av, fails, arch, version) :
        av \in BOOLEAN, fails \in BOOLEAN,
        arch \in {CurrentArch, "Error"}, version \in {CurrentVersion, "Error"}}

\* Capability: a process that constructed MainCategory() and one framework in
\* it (installed when constructed, or constructed in completion mode) reads
\* is_installable
InitGate ==
    /\ completion_mode \in BOOLEAN
    /\ \E decl \in GateDecls :
          LET m == BaseCategoryInit(<<>>, <<>>, MainName, TRUE)
              r == BaseFrameworkInit(m.categories, m.heap, completion_mode, m.id, decl,
                                     Answer(TRUE, FALSE, TRUE, TRUE, FALSE,
                                            CurrentArch, CurrentVersion),
                                     <<>>)
          IN  /\ categories = m.categories
              /\ heap = [m.heap EXCEPT ![m.id].frameworks = r.frameworks]
    /\ process = "running"
    /\ plugins = <<>>
    /\ passes = 0
    /\ first_pass = <<>>
    /\ last = NoOp
    /\ config = EmptyDict

NextGate == \E e \in GateAnswers : IsInstallable(1, 1, e)

SpecGate == InitGate /\ [][NextGate]_vars

\* A path an earlier run stored in the configuration
OldPath == << <<"o", "l", "d">> >>

\* Configurations found at start: none; one with another top-level key and no
\* framework; one with another top-level key, another category, and in
\* category a-b another framework and framework c with a path and another key
ConfigFiles ==
    {EmptyDict,
     ("version" :> <<"1">>) @@ ("frameworks" :> EmptyDict),
     ("version" :> <<"1">>)
        @@ ("frameworks" :>
               ((<<"z">> :> (<<"y">> :> ("path" :> OldPath)))
                @@ (<<"a", "-", "b">> :>
                       ((<<"z">> :> ("path" :> OldPath))
                        @@ (<<"c">> :> (("path" :> OldPath) @@ ("extra" :> <<"x">>)))))))}

\* Declarations and the answer of the configuration model: every framework is
\* installable, not installed, and needs no root access
ConfigDecls ==
    {Declaration(n, FALSE, <<>>, <<>>, <<>>) : n \in {<<"A", " ", "b">>, <<"c">>}}

ConfigAnswer == Answer(FALSE, FALSE, TRUE, TRUE, FALSE, CurrentArch, CurrentVersion)

\* Configuration: a process that found some configuration constructs
\* categories of one name and frameworks, sets them up at another path and
\* marks them
InitConfig ==
    /\ completion_mode \in BOOLEAN
    /\ categories = <<>>
    /\ heap = <<>>
    /\ process = "running"
    /\ plugins = <<>>
    /\ passes = 0
    /\ first_pass = <<>>
    /\ last = NoOp
    /\ config \in ConfigFiles

NextConfig ==
    \/ NewCategory(<<"A", " ", "b">>, FALSE)
    \/ \E c \in 1..Len(heap), decl \in ConfigDecls :
          NewFramework(c, decl, ConfigAnswer, config_lookup(config, heap[c], decl.name))
    \/ \E c \in 1..Len(heap), i \in 1..MaxFrameworks :
          Setup(c, i, CustomPath, ConfigAnswer, 0, 0)
    \/ \E c \in 1..Len(heap), i \in 1..MaxFrameworks : MarkInConfig(c, i)

SpecConfig == InitConfig /\ [][NextConfig]_vars

\* load_frameworks() runs over the plugin directory
LoadFrameworks ==
    /\ process = "running"
    /\ passes < MaxPasses
    /\ LET r == load_frameworks(categories, heap, completion_mode, plugins)
       IN  /\ heap' = r.heap
           /\ categories' = r.categories
           /\ first_pass' = IF passes = 0 THEN RegistryView(r.categories, r.heap)
                            ELSE first_pass
           /\ last' = [NoOp EXCEPT !.op = "load_frameworks", !.raised = r.raised,
                                   !.caught = r.caught]
    /\ passes' = passes + 1
    /\ UNCHANGED <<config, completion_mode, process, plugins>>

\* Discovery: a process with some plugin directory runs load_frameworks
InitLoad ==
    /\ completion_mode \in BOOLEAN
    /\ categories = <<>>
    /\ heap = <<>>
    /\ process = "running"
    /\ plugins \in PluginSets
    /\ passes = 0
    /\ first_pass = <<>>
    /\ last = NoOp
    /\ config = EmptyDict

NextLoad == LoadFrameworks

SpecLoad == InitLoad /\ [][NextLoad]_vars

-----------------------------------------------------------------------------
\* Properties

\* The frameworks registered in category object c whose is_category_default is true
Defaults(c) ==
    {i \in 1..Len(heap[c].frameworks) : heap[c].frameworks[i].is_category_default}

\* C1: in every category, at most one registered framework has
\* is_category_default true, also in completion mode.
C1_AtMostOneDefault ==
    \A c \in 1..Len(heap) : Cardinality(Defaults(c)) <= 1

\* The category objects constructed with the program-name of category object c
SameProgName(c) ==
    {d \in 1..Len(heap) : CategoryProgName(heap[d].name) = CategoryProgName(heap[c].name)}

\* C2: the registry holds, for each program-name, the first category
\* constructed with it and no other; a later one is not stored, replaces
\* nothing, and its construction does not raise.
C2_FirstCategoryWins ==
    /\ \A c \in 1..Len(heap) :
          \E i \in 1..Len(categories) : categories[i] = Min(SameProgName(c))
    /\ \A i \in 1..Len(categories) : categories[i] = Min(SameProgName(categories[i]))
    /\ \A i, j \in 1..Len(categories) : categories[i] = categories[j] => i = j
    /\ last.op = "category" => last.raised = "none"

\* A category was constructed under another name that derives a program-name
\* already registered, and was not stored.
C2_Witness ==
    /\ last.op = "category"
    /\ ~last.registered
    /\ \E d \in SameProgName(last.cat) : d < last.cat /\ heap[d].name # heap[last.cat].name
    /\ \A i \in 1..Len(categories) : categories[i] # last.cat

\* C3: no category whose is_main_category is true has a default framework.
C3_MainHasNoDefault ==
    \A c \in 1..Len(heap) : heap[c].is_main_category => Defaults(c) = {}

\* C4 as stated: a framework whose only_on_archs is non-empty and lacks the
\* current architecture is never registered by its construction.
C4_ArchExcludedNeverRegistered ==
    (last.op = "framework" /\ last.arch_excluded) => ~last.registered

\* C4 as amended: outside completion mode, a framework whose only_on_archs is
\* non-empty and lacks the current architecture, and which is not installed
\* when constructed, is not registered by its construction.
C4_ArchExcludedNotInstalledNotRegistered ==
    (last.op = "framework" /\ last.arch_excluded /\ ~completion_mode
        /\ last.installed # "True")
    => ~last.registered

\* Outside completion mode a framework excluded by its architecture list, with
\* no install directory, was constructed for a category that holds no
\* framework of its name, and was not registered.
C4_Witness ==
    /\ last.op = "framework"
    /\ last.arch_excluded
    /\ ~completion_mode
    /\ last.installed = "False"
    /\ last.raised = "none"
    /\ ~last.registered
    /\ heap[last.cat].frameworks = <<>>

\* C5: run_for with no framework named, on a category that holds exactly one
\* framework, calls that framework's run_for and does not abort.
C5_SingleFrameworkIsRun ==
    (last.op = "run_for" /\ ~last.named /\ Len(heap[last.cat].frameworks) = 1)
    => (last.fw = 1 /\ last.raised # "BaseException")

\* C6: after a second run of load_frameworks over the same plugin directory
\* the registry shows what it showed after the first run.
C6_LoadTwiceSameRegistry ==
    passes >= 2 => RegistryView(categories, heap) = first_pass

\* load_frameworks ran twice over a plugin directory that registers a default
\* framework in a category.
C6_Witness ==
    /\ passes = 2
    /\ last.raised = "none"
    /\ \E i \in 1..Len(categories) :
          /\ ~heap[categories[i]].is_main_category
          /\ Defaults(categories[i]) # {}

\* The plugin directory without the framework classes whose constructor raises
\* TypeError
WithoutTypeErrors(modules) ==
    [k \in 1..Len(modules) |->
        [modules[k] EXCEPT !.frameworks = SelectSeq(@, LAMBDA f : ~f.raises_type_error)]]

\* C7: a framework class whose construction raises TypeError is skipped: the
\* run registers what it registers over the plugin directory without that
\* class, and load_frameworks does not raise the TypeError.
C7_TypeErrorSkipsOnlyThatFramework ==
    passes = 1 =>
        /\ LET r == load_frameworks(<<>>, <<>>, completion_mode, WithoutTypeErrors(plugins))
           IN  RegistryView(categories, heap) = RegistryView(r.categories, r.heap)
        /\ last.raised # "TypeError"

\* load_frameworks ran over a plugin directory whose first module holds a
\* class that raises TypeError followed by one that is registered, and whose
\* second module holds a class that is registered.
C7_Witness ==
    /\ passes = 1
    /\ last.caught = 1
    /\ last.raised = "none"
    /\ Len(plugins[1].frameworks) = 2
    /\ plugins[1].frameworks[1].raises_type_error
    /\ Len(heap[1].frameworks) = 1
    /\ Len(plugins[2].frameworks) = 1
    /\ Len(heap[Len(heap)].frameworks) = 1

\* C8: category.is_installed is NOT_INSTALLED when no registered framework is
\* installed, FULLY_INSTALLED when one is and all are, PARTIALLY_INSTALLED
\* otherwise.
C8_CategoryIsInstalledTriState ==
    (last.op = "is_installed" /\ last.raised = "none")
    => last.value =
          (IF last.installed_count = 0 THEN NOT_INSTALLED
           ELSE IF last.installed_count = Len(heap[last.cat].frameworks)
           THEN FULLY_INSTALLED
           ELSE PARTIALLY_INSTALLED)

\* is_installed was read on a category of which some but not all frameworks
\* are installed.
C8_Witness ==
    /\ last.op = "is_installed"
    /\ last.raised = "none"
    /\ last.installed_count = 1
    /\ Len(heap[last.cat].frameworks) = 2
    /\ last.value = PARTIALLY_INSTALLED

\* C9: setup on a framework that is not installable spawns no sudo, does not
\* switch the user, leaves every object (install_path included) as it was and
\* the process running.
C9_SetupNotInstallableNoEffect ==
    [][(last'.op \in {"setup", "run_for"} /\ last'.fw # 0 /\ ~last'.installable)
        => /\ heap' = heap
           /\ process' = process
           /\ \A k \in 1..Len(last'.effects) :
                 last'.effects[k] \notin {"sudo", "quit", "switch_to_current_user"}]_vars

\* setup was called with a target path on a framework that needs root access
\* and is not installable.
C9_Witness ==
    /\ last.op = "setup"
    /\ ~last.installable
    /\ last.supplied
    /\ heap[last.cat].frameworks[last.fw].need_root_access
    /\ heap[last.cat].frameworks[last.fw].install_path # CustomPath

\* C10: constructing a framework with is_category_default=True for a non-main
\* category that has a default framework leaves neither with the flag, and the
\* category without default framework.
C10_ConflictClearsBoth ==
    [][(/\ last'.op = "framework"
        /\ last'.requested_default
        /\ ~heap[last'.cat].is_main_category
        /\ Defaults(last'.cat) # {})
        => /\ ~last'.is_category_default
           /\ default_framework(heap'[last'.cat].frameworks) = 0]_vars

\* C11: category.run_for with no framework named calls run_for of the
\* category's default framework when there is one, and otherwise raises, calls
\* no framework and changes nothing; with a registered framework named it
\* calls run_for of that framework.  No other framework is touched.
C11_RunForDelegation ==
    [][(last'.op = "run_for") =>
        LET frameworks == heap[last'.cat].frameworks
            dflt == default_framework(frameworks)
            at == FrameworkAt(frameworks, last'.framework)
        IN  /\ (~last'.named /\ dflt # 0) =>
                   (last'.fw = dflt /\ last'.raised # "BaseException")
            /\ (~last'.named /\ dflt = 0) =>
                   /\ last'.fw = 0
                   /\ last'.raised = "BaseException"
                   /\ last'.effects = <<>>
                   /\ heap' = heap
                   /\ process' = process
            /\ (last'.named /\ at # 0) =>
                   /\ last'.fw = at
                   /\ FrameworkProgName(frameworks[last'.fw].name) = last'.framework
            /\ \A c \in 1..Len(heap) : \A i \in 1..Len(heap[c].frameworks) :
                   (c # last'.cat \/ i # last'.fw) =>
                       heap'[c].frameworks[i] = heap[c].frameworks[i]]_vars

\* run_for with no framework named was called on a category whose default
\* framework is the second of two, and that framework's setup switched the user.
C11_Witness ==
    /\ last.op = "run_for"
    /\ ~last.named
    /\ last.fw = 2
    /\ Len(heap[last.cat].frameworks) = 2
    /\ default_framework(heap[last.cat].frameworks) = 2
    /\ last.effects = <<"switch_to_current_user">>

\* C12: outside completion mode, a framework whose program-name is free in its
\* category is registered by its construction if and only if it is installed
\* or installable when constructed.
C12_RegisteredIffInstalledOrInstallable ==
    (last.op = "framework" /\ ~completion_mode /\ ~last.collides)
    => (last.registered <=> (last.installed = "True" \/ last.installable))

\* C13: in completion mode the construction of a framework asks nothing of the
\* requirements collaborator, the platform or the configuration, does not
\* raise, and registers the framework exactly when its program-name is free in
\* the category, whatever its eligibility.
C13_CompletionSkipsChecks ==
    (last.op = "framework" /\ completion_mode)
    => /\ last.queries = <<>>
       /\ last.raised = "none"
       /\ last.registered <=> ~last.collides

\* In completion mode a framework that is excluded by its architecture list,
\* hence not installable, was constructed and registered.
C13_Witness ==
    /\ last.op = "framework"
    /\ completion_mode
    /\ last.arch_excluded
    /\ ~last.installable
    /\ last.registered
    /\ last.queries = <<>>

\* C14: outside completion mode, the construction of a framework that is not
\* registered because it is neither installed nor installable leaves every
\* category as it was: the frameworks registered and their is_category_default
\* flags, also when the discarded framework declared is_category_default=True.
C14_DiscardedLeavesCategoryUnchanged ==
    [][(/\ last'.op = "framework"
        /\ ~completion_mode
        /\ last'.raised = "none"
        /\ last'.installed = "False"
        /\ ~last'.installable)
        => heap' = heap]_vars

\* C15: the construction of a framework whose program-name is taken in its
\* category does not raise and leaves every category as it was: the first
\* framework stays under that name with its is_category_default flag, also
\* when the rejected framework declared is_category_default=True.
C15_FirstFrameworkWins ==
    [][(last'.op = "framework" /\ last'.collides)
        => (heap' = heap /\ last'.raised = "none")]_vars

\* C16: after each run of load_frameworks every category in the registry (and
\* with it every framework reachable from the registry) is an object that run
\* created; none was constructed before the run started.
C16_RegistryFreshEachPass ==
    [][(last'.op = "load_frameworks")
        => \A i \in 1..Len(categories') : categories'[i] > Len(heap)]_vars

\* C17: a KeyError of is_bucket_installed never leaves the constructor of a
\* framework, whether its install directory exists or not, and never leaves
\* load_frameworks.
C17_LookupErrorSuppressed ==
    (last.op \in {"framework", "load_frameworks"}) => last.raised # "KeyError"

InstallableAsStated(self, e) ==
    /\ \/ Len(self.only_on_archs) = 0
       \/ (e.arch # "Error"
           /\ \E i \in 1..Len(self.only_on_archs) : self.only_on_archs[i] = e.arch)
    /\ \/ Len(self.only_ubuntu_version) = 0
       \/ (e.version # "Error"
           /\ \E i \in 1..Len(self.only_ubuntu_version) : self.only_ubuntu_version[i] = e.version)
    /\ ~e.available_fails
    /\ e.bucket_available

\* A call is_installable made failed
LookupFailed(queries, e) ==
    \E k \in 1..Len(queries) :
        \/ queries[k] = "get_current_arch" /\ e.arch = "Error"
        \/ queries[k] = "get_current_ubuntu_version" /\ e.version = "Error"
        \/ queries[k] = "is_bucket_available" /\ e.available_fails

\* C19: is_installable is true exactly when the architecture list is empty or
\* holds the current architecture, the version list is empty or holds the
\* current version, and the requirements are available; it is false whenever
\* a lookup it makes fails.
C19_IsInstallableFailClosed ==
    (last.op = "is_installable")
    => /\ last.installable
            <=> InstallableAsStated(heap[last.cat].frameworks[last.fw], last.answer)
       /\ LookupFailed(last.queries, last.answer) => ~last.installable

\* is_installable was read on a framework whose architecture list holds the
\* current architecture while the version lookup failed, and answered false.
C19_Witness ==
    /\ last.op = "is_installable"
    /\ Len(heap[last.cat].frameworks[last.fw].only_on_archs) = 2
    /\ Len(heap[last.cat].frameworks[last.fw].only_ubuntu_version) = 2
    /\ last.answer.arch = CurrentArch
    /\ last.answer.version = "Error"
    /\ last.answer.bucket_available
    /\ last.queries = <<"get_current_arch", "get_current_ubuntu_version">>
    /\ ~last.installable

\* d[key], or an empty dict when d has no such key
Sub(d, key) == IF key \in DOMAIN d THEN d[key] ELSE EmptyDict

\* d2 is d1 with the entry under key added or replaced, every other entry of
\* d1 kept and none added
OnlyKeyChanged(d1, d2, key) ==
    /\ DOMAIN d2 = DOMAIN d1 \cup {key}
    /\ \A k \in DOMAIN d1 : k # key => d2[k] = d1[k]

\* C20: a mark_in_config that returns leaves in the configuration the
\* framework's install_path under frameworks / category program-name /
\* framework program-name / path, and changes no other entry at any level:
\* other top-level keys, other categories, other frameworks of the category,
\* other keys of the framework.
C20_MarkInConfigMerges ==
    [][(last'.op = "mark_in_config" /\ last'.raised = "none")
        =>
        LET self == heap[last'.cat].frameworks[last'.fw]
            ckey == CategoryProgName(heap[last'.cat].name)
            fkey == FrameworkProgName(self.name)
        IN  /\ OnlyKeyChanged(config, config', "frameworks")
            /\ OnlyKeyChanged(Sub(config, "frameworks"), config'["frameworks"], ckey)
            /\ OnlyKeyChanged(Sub(Sub(config, "frameworks"), ckey),
                              config'["frameworks"][ckey], fkey)
            /\ OnlyKeyChanged(Sub(Sub(Sub(config, "frameworks"), ckey), fkey),
                              config'["frameworks"][ckey][fkey], "path")
            /\ config'["frameworks"][ckey][fkey]["path"] = self.install_path
            /\ heap' = heap]_vars

\* Framework c of category a-b, set up at another path than the one the
\* configuration held, was marked: the configuration holds the new path beside
\* the other key of c, the other framework, the other category and the other
\* top-level key.
C20_Witness ==
    /\ last.op = "mark_in_config"
    /\ last.raised = "none"
    /\ CategoryProgName(heap[last.cat].name) = <<"a", "-", "b">>
    /\ heap[last.cat].frameworks[last.fw].name = <<"c">>
    /\ config =
          ("version" :> <<"1">>)
          @@ ("frameworks" :>
                 ((<<"z">> :> (<<"y">> :> ("path" :> OldPath)))
                  @@ (<<"a", "-", "b">> :>
                         ((<<"z">> :> ("path" :> OldPath))
                          @@ (<<"c">> :> (("path" :> CustomPath) @@ ("extra" :> <<"x">>)))))))

====
